---- MODULE Spec2Model ----
(***************************************************************************)
(* E2EE relay server (src/Index.js): the in-memory key directory behind    *)
(* the HTTP endpoints, the connection registry `clients`, the per-         *)
(* connection message and close handlers, and the heartbeat sweep.         *)
(*                                                                         *)
(* JavaScript values are represented by strings: a JSON string by itself   *)
(* ("" is the empty string), and the values that are not strings by the    *)
(* bracketed tokens below.                                                 *)
(***************************************************************************)
EXTENDS Naturals, Sequences, FiniteSets, TLC

\* ---------------------------------------------------------------- bounds
NumConns == 2                  \* connections accepted during a run

Conns == 1..NumConns

\* ------------------------------------------------------- JavaScript values
Absent == "<undefined>"        \* a field that is not in the object
Null == "<null>"               \* null
Infinity == "<Infinity>"       \* the double a too large literal parses to
BigNum == "<1e400>"            \* the JSON number literal 1e400 on the wire

ObjectPrototype == "<Object.prototype>"   \* what every {} inherits from
EmptyObject == "{}"            \* the JSON text of an object without own fields

UserIds == {"alice", "bob"}
IdValues == {Absent, ""} \cup UserIds
PayloadTexts == {Absent, "", "Zm9v", BigNum}

\* JSON.parse of one field value of a frame (line 67).
JSONparse(text) == IF text = BigNum THEN Infinity ELSE text

\* JSON.stringify of one field value of an outbound frame or of a response
\* body (lines 35, 73-95).
JSONstringify(v) ==
  IF v = Infinity THEN Null
  ELSE IF v = ObjectPrototype THEN EmptyObject
  ELSE v

\* The operand of `!x` is falsy: undefined, null, the empty string.
Falsy(v) == v \in {Absent, Null, ""}

\* Inbound data of the 'message' event: text that is not JSON ("malformed"),
\* the JSON text `null`, another JSON text that is not an object ("scalar",
\* a value on which every field reads as undefined), or a JSON object with
\* the fields the handler reads.
Objects ==
  [kind : {"object"}, type : {"identify"}, userId : IdValues,
   to : {Absent}, payload : {Absent}]
  \cup
  [kind : {"object"}, type : {"send"}, userId : {Absent},
   to : IdValues, payload : PayloadTexts]
  \cup
  [kind : {"object"}, type : {"ping", "other", Absent}, userId : {Absent},
   to : {Absent}, payload : {Absent}]

Data ==
  Objects \cup
  [kind : {"malformed", "null", "scalar"}, type : {Absent}, userId : {Absent},
   to : {Absent}, payload : {Absent}]

\* Bodies of POST /register and the :userId of GET /keys/:userId.  The key
\* "__proto__" stands for the names every plain object inherits.
KeyIds == UserIds \cup {"__proto__"}
KeyValues == {"QUJD", "REVG"}
Bodies == [userId : {Absent, ""} \cup KeyIds, publicKey : {Absent, ""} \cup KeyValues]

VARIABLES
  publicKeys,   \* the object `publicKeys`: a function from its own property
                \* names to their values
  res,          \* the response of the last HTTP request
  readyState,   \* per connection: "NONE" (not accepted yet), "OPEN",
                \* "CLOSING" (closed or terminated, 'close' not emitted yet),
                \* "CLOSED" ('close' emitted, its handler has run)
  userId,       \* per connection: the closure variable `userId` (line 60)
  isAlive,      \* per connection: ws.isAlive
  silent,       \* connections whose peer has stopped answering for good
  clients,      \* the Map `clients`: a function from its keys to connections
  out,          \* frames emitted by the last handler, in emission order
  latest        \* history: userId -> the connection that identified as it last

relayVars == <<readyState, userId, isAlive, silent, clients, out>>
httpVars == <<publicKeys, res>>
vars ==
  <<publicKeys, res, readyState, userId, isAlive, silent, clients, out, latest>>

\* Map.prototype.has / set / delete on `clients` (lines 71, 80, 103, 104).
MapHas(m, k) == k \in DOMAIN m
MapSetIfAbsent(m, k, v) ==
  [x \in DOMAIN m \cup {k} |-> IF x \in DOMAIN m THEN m[x] ELSE v]
MapSet(m, k, v) == [x \in DOMAIN m \cup {k} |-> IF x = k THEN v ELSE m[x]]
MapDelete(m, k) == [x \in DOMAIN m \ {k} |-> m[x]]

Frame(c, type, arg) == [conn |-> c, type |-> type, arg |-> arg]

\* wss.clients: the connections the server still tracks (line 112).
wssClients == {c \in Conns : readyState[c] \in {"OPEN", "CLOSING"}}

NoResponse ==
  [status |-> 0, error |-> Absent, ok |-> Absent, userId |-> Absent,
   publicKey |-> Absent, all |-> <<>>]

Init ==
  /\ publicKeys = <<>>
  /\ res = NoResponse
  /\ readyState = [c \in Conns |-> "NONE"]
  /\ userId = [c \in Conns |-> Null]
  /\ isAlive = [c \in Conns |-> TRUE]
  /\ silent = {}
  /\ clients = <<>>
  /\ out = <<>>
  /\ latest = <<>>

\* wss.on('connection'): a fresh connection object (lines 59-63).
Connection(ws) ==
  /\ readyState[ws] = "NONE"
  /\ \A c \in Conns : c < ws => readyState[c] # "NONE"
  /\ readyState' = [readyState EXCEPT ![ws] = "OPEN"]
  /\ userId' = [userId EXCEPT ![ws] = Null]
  /\ isAlive' = [isAlive EXCEPT ![ws] = TRUE]
  /\ out' = <<>>
  /\ res' = NoResponse
  /\ UNCHANGED <<silent, clients, publicKeys, latest>>

\* ws.on('pong') (line 63).
OnPong(ws) ==
  /\ readyState[ws] = "OPEN"
  /\ ws \notin silent
  /\ isAlive' = [isAlive EXCEPT ![ws] = TRUE]
  /\ out' = <<>>
  /\ res' = NoResponse
  /\ UNCHANGED <<readyState, userId, silent, clients, publicKeys, latest>>

\* The validation of an identify frame (line 69).
IdentifyInvalidAbsentOnly(msg) == msg.userId = Absent
IdentifyInvalid(msg) == Falsy(msg.userId)

\* The identify branch (lines 68-75).
Identify(ws, msg) ==
  IF IdentifyInvalid(msg)
  THEN /\ out' = <<Frame(ws, "error", "identify requires userId")>>
       /\ UNCHANGED <<userId, isAlive, clients, latest>>
  ELSE /\ userId' = [userId EXCEPT ![ws] = msg.userId]
       /\ isAlive' = isAlive
       /\ clients' = MapSet(clients, msg.userId, ws)
       /\ latest' = [x \in DOMAIN latest \cup {msg.userId} |->
                       IF x = msg.userId THEN ws ELSE latest[x]]
       /\ out' = <<Frame(ws, "identified", JSONstringify(msg.userId))>>

\* The validation of a send frame (line 79).
SendInvalidToOnly(msg) == Falsy(msg.to)
SendInvalid(msg) == Falsy(msg.to) \/ Falsy(msg.payload)

\* dest && dest.readyState === WebSocket.OPEN (lines 82-83).
DeliverableAnyStatus(to) == MapHas(clients, to)
Deliverable(to) == MapHas(clients, to) /\ readyState[clients[to]] = "OPEN"

\* A send branch that relays only for a sender that has identified.
SendIdentifiedOnly(ws, msg) ==
  /\ UNCHANGED <<userId, isAlive, clients, latest>>
  /\ IF userId[ws] = Null \/ SendInvalid(msg)
     THEN out' = <<Frame(ws, "error", "send requires to and payload")>>
     ELSE IF Deliverable(msg.to)
          THEN out' = <<Frame(clients[msg.to], "message",
                              JSONstringify(msg.payload)),
                        Frame(ws, "sent", JSONstringify(msg.to))>>
          ELSE out' = <<Frame(ws, "offline", JSONstringify(msg.to))>>

\* The send branch (lines 77-90).
Send(ws, msg) ==
  /\ UNCHANGED <<userId, isAlive, clients, latest>>
  /\ IF SendInvalid(msg)
     THEN out' = <<Frame(ws, "error", "send requires to and payload")>>
     ELSE IF Deliverable(msg.to)
          THEN out' = <<Frame(clients[msg.to], "message",
                              JSONstringify(msg.payload)),
                        Frame(ws, "sent", JSONstringify(msg.to))>>
          ELSE out' = <<Frame(ws, "offline", JSONstringify(msg.to))>>

\* The ping branch (line 93): an application-level pong frame, no write to
\* ws.isAlive.
PingMarksAlive(ws) ==
  /\ out' = <<Frame(ws, "pong", Absent)>>
  /\ isAlive' = [isAlive EXCEPT ![ws] = TRUE]
  /\ UNCHANGED <<userId, clients, latest>>
Ping(ws) ==
  /\ out' = <<Frame(ws, "pong", Absent)>>
  /\ UNCHANGED <<userId, isAlive, clients, latest>>

\* The fall-through of the dispatch (line 95).
UnknownTypeIgnored(ws) ==
  /\ out' = <<>>
  /\ UNCHANGED <<userId, isAlive, clients, latest>>
UnknownType(ws) ==
  /\ out' = <<Frame(ws, "error", "unknown message type")>>
  /\ UNCHANGED <<userId, isAlive, clients, latest>>

\* The try block throws (lines 67-68): JSON.parse rejects the text, or it
\* returns null and reading msg.type throws a TypeError.
ThrowsNever(data) == FALSE
Throws(data) == data.kind \in {"malformed", "null"}

\* ws.on('message') (lines 65-100).
OnMessage(ws, data) ==
  /\ readyState[ws] = "OPEN"
  /\ ws \notin silent
  /\ UNCHANGED <<readyState, silent, publicKeys>>
  /\ res' = NoResponse
  /\ IF Throws(data)
     THEN \* the catch block (lines 96-99)
          /\ out' = <<Frame(ws, "error", "invalid JSON")>>
          /\ UNCHANGED <<userId, isAlive, clients, latest>>
     ELSE LET msg == [type |-> JSONparse(data.type),
                      userId |-> JSONparse(data.userId),
                      to |-> JSONparse(data.to),
                      payload |-> JSONparse(data.payload)] IN
          IF msg.type = "identify" THEN Identify(ws, msg)
          ELSE IF msg.type = "send" THEN Send(ws, msg)
          ELSE IF msg.type = "ping" THEN Ping(ws)
          ELSE UnknownType(ws)

\* The peer closes the connection or the transport drops: the socket leaves
\* OPEN, and the 'close' event is emitted later.
PeerClose(ws) ==
  /\ readyState[ws] = "OPEN"
  /\ ws \notin silent
  /\ readyState' = [readyState EXCEPT ![ws] = "CLOSING"]
  /\ out' = <<>>
  /\ res' = NoResponse
  /\ UNCHANGED <<userId, isAlive, silent, clients, publicKeys, latest>>

\* The peer stops answering (a dead connection): no frame, no pong and no
\* close comes from it any more.
PeerSilent(ws) ==
  /\ readyState[ws] = "OPEN"
  /\ ws \notin silent
  /\ silent' = silent \cup {ws}
  /\ out' = <<>>
  /\ res' = NoResponse
  /\ UNCHANGED <<readyState, userId, isAlive, clients, publicKeys, latest>>

\* The guard of the close handler (line 103).
IsCurrentUnguarded(ws) ==
  ~Falsy(userId[ws]) /\ MapHas(clients, userId[ws])
IsCurrentSameUserId(ws) ==
  /\ ~Falsy(userId[ws])
  /\ MapHas(clients, userId[ws])
  /\ userId[clients[userId[ws]]] = userId[ws]
IsCurrent(ws) ==
  /\ ~Falsy(userId[ws])
  /\ MapHas(clients, userId[ws])
  /\ clients[userId[ws]] = ws

\* ws.on('close') (lines 102-107).
OnClose(ws) ==
  /\ readyState[ws] = "CLOSING"
  /\ readyState' = [readyState EXCEPT ![ws] = "CLOSED"]
  /\ clients' = IF IsCurrent(ws) THEN MapDelete(clients, userId[ws])
                ELSE clients
  /\ out' = <<>>
  /\ res' = NoResponse
  /\ UNCHANGED <<userId, isAlive, silent, publicKeys, latest>>

\* The connection did not answer the previous probe (line 113).
UnresponsiveNever(ws) == FALSE
UnresponsiveWithoutProbe(ws) == TRUE
Unresponsive(ws) == isAlive[ws] = FALSE

\* One tick of the heartbeat interval (lines 111-117).
Heartbeat ==
  /\ readyState' = [c \in Conns |->
       IF c \in wssClients /\ Unresponsive(c) THEN "CLOSING"
       ELSE readyState[c]]
  /\ isAlive' = [c \in Conns |->
       IF c \in wssClients /\ ~Unresponsive(c) THEN FALSE ELSE isAlive[c]]
  /\ out' = <<>>
  /\ res' = NoResponse
  /\ UNCHANGED <<userId, silent, clients, publicKeys, latest>>

\* Reading and writing a property of the plain object `publicKeys`
\* (lines 18, 26, 33): a name that is not an own property is looked up in
\* Object.prototype, and assigning a string to "__proto__" is ignored by its
\* setter.
ObjGet(o, k) ==
  IF k \in DOMAIN o THEN o[k]
  ELSE IF k = "__proto__" THEN ObjectPrototype
  ELSE Absent
ObjSet(o, k, v) == IF k = "__proto__" THEN o ELSE MapSet(o, k, v)

\* The validation of POST /register (line 25).
RegisterInvalidUserIdOnly(body) == Falsy(body.userId)
RegisterInvalid(body) == Falsy(body.userId) \/ Falsy(body.publicKey)

\* app.post('/register') (lines 23-28).
Register(body) ==
  /\ IF RegisterInvalid(body)
     THEN /\ res' = [NoResponse EXCEPT !.status = 400,
                       !.error = "userId and publicKey required"]
          /\ UNCHANGED publicKeys
     ELSE /\ publicKeys' = ObjSet(publicKeys, body.userId, body.publicKey)
          /\ res' = [NoResponse EXCEPT !.status = 200, !.ok = "true"]
  /\ out' = <<>>
  /\ UNCHANGED <<readyState, userId, isAlive, silent, clients, latest>>

\* The response of GET /keys/:userId for the directory o (lines 33-35).
KeyResponse(o, id) ==
  IF Falsy(ObjGet(o, id))
  THEN [NoResponse EXCEPT !.status = 404, !.error = "not found"]
  ELSE [NoResponse EXCEPT !.status = 200, !.userId = JSONstringify(id),
          !.publicKey = JSONstringify(ObjGet(o, id))]

\* app.get('/keys/:userId') (lines 32-36).
GetKey(id) ==
  /\ res' = KeyResponse(publicKeys, id)
  /\ out' = <<>>
  /\ UNCHANGED <<publicKeys, readyState, userId, isAlive, silent, clients,
                 latest>>

\* app.get('/keys') (lines 39-41).
ListKeys ==
  /\ res' = [NoResponse EXCEPT !.status = 200, !.all = publicKeys]
  /\ out' = <<>>
  /\ UNCHANGED <<publicKeys, readyState, userId, isAlive, silent, clients,
                 latest>>

Next ==
  \/ \E ws \in Conns : Connection(ws)
  \/ \E ws \in Conns : OnPong(ws)
  \/ \E ws \in Conns, data \in Data : OnMessage(ws, data)
  \/ \E ws \in Conns : PeerClose(ws)
  \/ \E ws \in Conns : OnClose(ws)
  \/ Heartbeat

\* The relay: connections, registry and heartbeat.  A peer that has gone
\* silent only takes events away, so every run of the server with silent
\* peers is a run of Spec in which those peers happen to send nothing.
Spec == Init /\ [][Next]_vars

HttpNext ==
  \/ \E body \in Bodies : Register(body)
  \/ \E id \in KeyIds : GetKey(id)
  \/ ListKeys

\* The relay events that decide the registry: of the frames, only the
\* identify frames change more than `out`, and a connection the heartbeat
\* terminates reaches the registry by the same 'close' event as any other.
RegistryNext ==
  \/ \E ws \in Conns : Connection(ws)
  \/ \E ws \in Conns, id \in UserIds :
       OnMessage(ws, [kind |-> "object", type |-> "identify", userId |-> id,
                      to |-> Absent, payload |-> Absent])
  \/ \E ws \in Conns : PeerClose(ws)
  \/ \E ws \in Conns : OnClose(ws)

ServerNext == RegistryNext \/ HttpNext

\* The HTTP endpoints next to a live registry.
ServerSpec == Init /\ [][ServerNext]_vars

\* The relay with its heartbeat and with peers that go silent.
FairNext ==
  \/ RegistryNext
  \/ \E ws \in Conns : OnPong(ws)
  \/ \E ws \in Conns : PeerSilent(ws)
  \/ Heartbeat

\* Its scheduling: the interval timer keeps ticking, and the 'close' event of
\* a socket that left OPEN is eventually emitted.
FairSpec ==
  /\ Init /\ [][FairNext]_vars
  /\ WF_vars(Heartbeat)
  /\ \A ws \in Conns : WF_vars(OnClose(ws))

\* ------------------------------------------------------------ properties

\* The inbound frames the properties speak about.
IdentifyData(id) ==
  [kind |-> "object", type |-> "identify", userId |-> id,
   to |-> Absent, payload |-> Absent]
SendData(to, payload) ==
  [kind |-> "object", type |-> "send", userId |-> Absent,
   to |-> to, payload |-> payload]

\* The frames of type `type` that the sequence o delivers to connection c.
FramesTo(o, c, type) ==
  {i \in DOMAIN o : o[i].conn = c /\ o[i].type = type}

\* lookup(u) is the connection c.
Lookup(m, u, c) == MapHas(m, u) /\ m[u] = c

\* C1 (guarded unregister): a connection that identifies as U becomes
\* lookup(U), also when another connection held U before; and the close
\* handler of a connection A leaves in place every registry entry that
\* refers to a connection other than A.
C1_GuardedUnregister ==
  [][/\ \A b \in Conns, u \in UserIds :
          OnMessage(b, IdentifyData(u)) => Lookup(clients', u, b)
     /\ \A a \in Conns :
          OnClose(a) =>
            \A u \in DOMAIN clients :
              clients[u] # a => Lookup(clients', u, clients[u])]_vars

\* A closed after B took over its userId, and B is still registered.
C1_Witness ==
  \E a, b \in Conns, u \in UserIds :
    /\ a # b
    /\ readyState[a] = "CLOSED" /\ userId[a] = u
    /\ readyState[b] = "OPEN" /\ userId[b] = u
    /\ Lookup(clients, u, b)

\* C2: a send{to: U, payload: P} with both fields present, processed while
\* the registry maps U to an open connection, delivers exactly one
\* message{payload: P} to that connection and exactly one sent{to: U} to the
\* sender.
C2_SendDelivers ==
  [][\A ws \in Conns, to \in IdValues, payload \in PayloadTexts :
       ( /\ OnMessage(ws, SendData(to, payload))
         /\ to # Absent /\ payload # Absent
         /\ MapHas(clients, to) /\ readyState[clients[to]] = "OPEN" )
       => /\ Cardinality(FramesTo(out', clients[to], "message")) = 1
          /\ \A i \in FramesTo(out', clients[to], "message") :
               out'[i].arg = payload
          /\ Cardinality(FramesTo(out', ws, "sent")) = 1
          /\ \A i \in FramesTo(out', ws, "sent") : out'[i].arg = to]_vars

\* C3: a send{to: U, payload: P} with both fields present, processed while U
\* has no registry entry or its connection is not open, gives the sender
\* exactly one offline{to: U} and delivers no message frame; and a message
\* frame is only ever delivered by the handler of a send frame that carries
\* its payload, so a dropped payload is not delivered later.
C3_OfflineNoBuffering ==
  [][/\ \A ws \in Conns, to \in IdValues, payload \in PayloadTexts :
          ( /\ OnMessage(ws, SendData(to, payload))
            /\ to # Absent /\ payload # Absent
            /\ ~(MapHas(clients, to) /\ readyState[clients[to]] = "OPEN") )
          => /\ Cardinality(FramesTo(out', ws, "offline")) = 1
             /\ \A i \in FramesTo(out', ws, "offline") : out'[i].arg = to
             /\ \A c \in Conns : FramesTo(out', c, "message") = {}
     /\ \A c \in Conns :
          \A i \in FramesTo(out', c, "message") :
            \E ws \in Conns, to \in IdValues, payload \in PayloadTexts :
              /\ OnMessage(ws, SendData(to, payload))
              /\ Lookup(clients, to, c)
              /\ out'[i].arg = payload]_vars

\* C4: an identify frame whose userId is absent or empty, received by an
\* Unidentified connection, gives that connection exactly one error frame
\* and nothing else, leaves it Unidentified and leaves the registry as it is.
C4_IdentifyInvalid ==
  [][\A ws \in Conns, id \in {Absent, ""} :
       (OnMessage(ws, IdentifyData(id)) /\ userId[ws] = Null)
       => /\ Len(out') = 1
          /\ out'[1].conn = ws /\ out'[1].type = "error"
          /\ userId'[ws] = Null
          /\ clients' = clients]_vars

\* An Unidentified connection next to a registered one has just been
\* refused.
C4_Witness ==
  \E ws \in Conns :
    /\ out = <<Frame(ws, "error", "identify requires userId")>>
    /\ userId[ws] = Null
    /\ clients # <<>>

C6_EntryStable ==
  [][/\ \A c \in Conns, u \in UserIds :
          OnMessage(c, IdentifyData(u)) => Lookup(clients', u, c)
     /\ \A u \in DOMAIN clients :
          ~Lookup(clients', u, clients[u])
          => \/ \E b \in Conns \ {clients[u]} : OnMessage(b, IdentifyData(u))
             \/ OnClose(clients[u])]_vars

\* The entry of a connection has outlived a heartbeat tick, the close of
\* another connection and a frame of another connection.
C6_Witness ==
  \E c, d \in Conns, u \in UserIds :
    /\ c # d
    /\ Lookup(clients, u, c) /\ userId[c] = u
    /\ isAlive[c] = FALSE
    /\ readyState[d] = "CLOSED"

\* C7: once a connection is Identified(U) it stays Identified with the same
\* U whatever it receives.
C7_IdentifiedIsTerminal ==
  [][\A ws \in Conns : userId[ws] # Null => userId'[ws] = userId[ws]]_vars

\* C8: after the close handler of a connection has run, no registry entry
\* refers to it.
C8_NoEntryAfterClose ==
  \A ws \in Conns :
    readyState[ws] = "CLOSED" => \A u \in DOMAIN clients : clients[u] # ws

\* C9: after a successful POST /register of U and K, GET /keys/U answers
\* 200 {userId: U, publicKey: K}, and the answer of GET /keys/U changes only
\* by a successful POST /register of U.
C9_KeyRoundTrip ==
  [][/\ \A body \in Bodies :
          (Register(body) /\ res'.status = 200)
          => KeyResponse(publicKeys', body.userId)
               = [NoResponse EXCEPT !.status = 200, !.userId = body.userId,
                    !.publicKey = body.publicKey]
     /\ \A id \in KeyIds :
          KeyResponse(publicKeys', id) # KeyResponse(publicKeys, id)
          => \E body \in Bodies :
               Register(body) /\ res'.status = 200 /\ body.userId = id]_vars

\* C10: a POST /register whose userId or publicKey is missing or empty is
\* answered 400 and leaves the key directory as it is; and no HTTP request
\* changes the connection registry.
C10_RegisterValidation ==
  [][/\ \A body \in Bodies :
          ( /\ \/ body.userId \in {Absent, ""}
               \/ body.publicKey \in {Absent, ""}
            /\ Register(body) )
          => /\ res'.status = 400
             /\ res'.error = "userId and publicKey required"
             /\ publicKeys' = publicKeys
     /\ clients' # clients => ~HttpNext]_vars

\* A request was refused while the directory and the registry hold entries.
C10_Witness ==
  /\ res.status = 400
  /\ publicKeys # <<>>
  /\ clients # <<>>

\* C11 (two-tick detection window): the sweep terminates an open connection
\* only when its awaiting-response mark is set; the mark is set only by a
\* tick that probes the connection without terminating it, a probe response
\* clears it, and a new connection starts without it; and a tick that finds
\* the mark set does terminate.  So a connection is never terminated at its
\* first tick, nor when it answers every probe before the next tick.
C11_TwoTickWindow ==
  [][\A ws \in Conns :
       /\ (Heartbeat /\ readyState[ws] = "OPEN" /\ readyState'[ws] # "OPEN")
            => isAlive[ws] = FALSE
       /\ (Heartbeat /\ readyState[ws] = "OPEN" /\ isAlive[ws] = FALSE)
            => readyState'[ws] = "CLOSING"
       /\ (isAlive[ws] = TRUE /\ isAlive'[ws] = FALSE)
            => /\ Heartbeat
               /\ ws \in wssClients
               /\ readyState'[ws] = readyState[ws]
       /\ OnPong(ws) => isAlive'[ws] = TRUE
       /\ Connection(ws) => isAlive'[ws] = TRUE]_vars

\* The sweep has terminated a connection whose peer went silent, next to an
\* open connection that has answered its probe.
C11_Witness ==
  \E ws, c \in Conns :
    /\ ws \in silent /\ readyState[ws] = "CLOSING" /\ isAlive[ws] = FALSE
    /\ c \notin silent /\ readyState[c] = "OPEN" /\ isAlive[c] = TRUE

\* C12 (no lost registration): in every state, the connection that
\* identified as U last is lookup(U) as long as its close handler has not
\* run, whatever identify and close events of other connections came in
\* between.
C12_LatestRegistrantKept ==
  \A u \in DOMAIN latest :
    readyState[latest[u]] # "CLOSED" => Lookup(clients, u, latest[u])

\* An earlier holder of U has closed after the latest registrant took over,
\* and the latest registrant has left OPEN but its close handler has not run.
C12_Witness ==
  \E a, b \in Conns, u \in UserIds :
    /\ a # b
    /\ readyState[a] = "CLOSED" /\ userId[a] = u
    /\ MapHas(latest, u) /\ latest[u] = b
    /\ readyState[b] = "CLOSING"
    /\ Lookup(clients, u, b)

\* Inbound data that is not an object.
RawData(kind) ==
  [kind |-> kind, type |-> Absent, userId |-> Absent,
   to |-> Absent, payload |-> Absent]
\* An inbound object with the given type and no other field.
TypeData(type) ==
  [kind |-> "object", type |-> type, userId |-> Absent,
   to |-> Absent, payload |-> Absent]

\* C13: a frame that is not JSON gives its sender exactly the frame
\* error{message: "invalid JSON"}; the connection stays open, and its
\* identification state and the registry are unchanged.
C13_MalformedFrame ==
  [][\A ws \in Conns :
       OnMessage(ws, RawData("malformed"))
       => /\ out' = <<Frame(ws, "error", "invalid JSON")>>
          /\ readyState'[ws] = "OPEN"
          /\ userId' = userId
          /\ clients' = clients]_vars

\* An identified connection has just sent a malformed frame.
C13_Witness ==
  \E ws \in Conns :
    /\ out = <<Frame(ws, "error", "invalid JSON")>>
    /\ readyState[ws] = "OPEN"
    /\ Lookup(clients, userId[ws], ws)

\* C14: every frame that is well-formed JSON and whose type is missing or is
\* none of identify, send, ping gives its sender exactly the frame
\* error{message: "unknown message type"}, and changes neither the
\* connection nor the registry.
C14_UnknownType ==
  [][\A ws \in Conns :
       \A data \in {RawData("null"), RawData("scalar"),
                    TypeData(Absent), TypeData("other")} :
         OnMessage(ws, data)
         => /\ out' = <<Frame(ws, "error", "unknown message type")>>
            /\ readyState'[ws] = readyState[ws]
            /\ userId' = userId
            /\ clients' = clients]_vars

\* C15: a send frame whose `to` or whose `payload` is missing gives its sender
\* exactly the frame error{message: "send requires to and payload"}; no
\* connection receives a message frame, and identification state and the
\* registry are unchanged.
C15_SendMissingField ==
  \A ws \in Conns, to \in IdValues, payload \in PayloadTexts :
    (to = Absent \/ payload = Absent)
    => ~ENABLED (/\ OnMessage(ws, SendData(to, payload))
                 /\ ~(/\ out' = <<Frame(ws, "error",
                                         "send requires to and payload")>>
                      /\ userId' = userId
                      /\ clients' = clients))

\* A send with a missing field was refused while another connection was
\* registered and open, so that a delivery was possible.
C15_Witness ==
  \E ws, c \in Conns :
    /\ ws # c
    /\ out = <<Frame(ws, "error", "send requires to and payload")>>
    /\ readyState[c] = "OPEN"
    /\ Lookup(clients, userId[c], c)

\* C16: an application-level ping frame gives its sender exactly one pong
\* frame and changes neither identification state, nor the registry, nor the
\* isAlive mark of any connection; a mark that is FALSE becomes TRUE only by
\* the transport-level pong of that connection.
C16_PingIsNotLiveness ==
  [][\A ws \in Conns :
       /\ OnMessage(ws, TypeData("ping"))
            => /\ out' = <<Frame(ws, "pong", Absent)>>
               /\ userId' = userId
               /\ clients' = clients
               /\ isAlive' = isAlive
       /\ (isAlive[ws] = FALSE /\ isAlive'[ws] = TRUE) => OnPong(ws)]_vars

\* A connection whose mark the heartbeat has cleared has just been answered
\* an application-level pong, and its mark is still cleared.
C16_Witness ==
  \E ws \in Conns :
    /\ out = <<Frame(ws, "pong", Absent)>>
    /\ readyState[ws] = "OPEN"
    /\ isAlive[ws] = FALSE

\* C17: when connection b identifies as a userId whose registry entry is
\* another connection a, the status, the identification and the isAlive mark
\* of a are unchanged and a receives no frame; afterwards the one entry of
\* that userId is b.
C17_OrphanNotClosed ==
  [][\A a, b \in Conns, u \in UserIds :
       (/\ a # b
        /\ Lookup(clients, u, a)
        /\ OnMessage(b, IdentifyData(u)))
       => /\ readyState'[a] = readyState[a]
          /\ userId'[a] = userId[a]
          /\ isAlive'[a] = isAlive[a]
          /\ \A i \in DOMAIN out' : out'[i].conn # a
          /\ Lookup(clients', u, b)
          /\ ~Lookup(clients', u, a)]_vars

\* Connection a is open and still identified as the userId whose entry now
\* belongs to b.
C17_Witness ==
  \E a, b \in Conns, u \in UserIds :
    /\ a # b
    /\ readyState[a] = "OPEN" /\ userId[a] = u
    /\ userId[b] = u
    /\ Lookup(clients, u, b)
    /\ out = <<Frame(b, "identified", u)>>

\* The relay can answer the send frame `data` of sender ws with a status
\* frame of type k.
CanAnswer(ws, data, k) ==
  ENABLED (/\ OnMessage(ws, data)
           /\ \E i \in DOMAIN out' : out'[i].conn = ws /\ out'[i].type = k)
\* The relay can deliver a message frame to connection c for the send frame
\* `data` of sender ws.
CanDeliver(ws, data, c) ==
  ENABLED (/\ OnMessage(ws, data)
           /\ \E i \in DOMAIN out' : out'[i].conn = c /\ out'[i].type = "message")

\* C18: the relay decision for a send frame does not depend on whether the
\* sender has identified: in every state, a connection that has not
\* identified and a connection that has get the same status (sent, offline or
\* error) and the same delivery for the same send frame.
C18_SenderIndependent ==
  \A ws1, ws2 \in Conns :
    (/\ readyState[ws1] = "OPEN" /\ userId[ws1] = Null
     /\ readyState[ws2] = "OPEN" /\ userId[ws2] # Null)
    => \A to \in UserIds, payload \in {"", "Zm9v"} :
         /\ \A k \in {"sent", "offline", "error"} :
              CanAnswer(ws1, SendData(to, payload), k)
                <=> CanAnswer(ws2, SendData(to, payload), k)
         /\ \A c \in Conns :
              CanDeliver(ws1, SendData(to, payload), c)
                <=> CanDeliver(ws2, SendData(to, payload), c)

\* A connection that never identified has just had its send relayed, next to
\* an open connection that has identified.
C18_Witness ==
  \E ws1, ws2 \in Conns, u \in UserIds :
    /\ readyState[ws1] = "OPEN" /\ userId[ws1] = Null
    /\ readyState[ws2] = "OPEN" /\ Lookup(clients, u, ws2)
    /\ Len(out) = 2
    /\ out[1].type = "message" /\ out[1].conn = ws2
    /\ out[2] = Frame(ws1, "sent", u)

\* The status frames.
StatusTypes == {"identified", "sent", "offline", "pong", "error"}

\* C19: every inbound frame gives its sender exactly one status frame
\* (identified, sent, offline, pong or error); the only other frame of the
\* handler is one message frame, and only when the status is sent.
C19_OneStatusFrame ==
  \A ws \in Conns, data \in Data :
    ~ENABLED (/\ OnMessage(ws, data)
              /\ ~(/\ out' # <<>>
                   /\ out'[Len(out')].conn = ws
                   /\ out'[Len(out')].type \in StatusTypes
                   /\ \A i \in 1..(Len(out') - 1) : out'[i].type = "message"
                   /\ Len(out') <= 2
                   /\ Len(out') = 2 => out'[2].type = "sent"))

\* The two kinds of answer: a lone error frame, and a message frame followed
\* by the sent frame of its sender (here a connection sending to itself).
C19_Witness ==
  \E ws \in Conns :
    /\ Len(out) = 2
    /\ out[1].conn = ws /\ out[1].type = "message"
    /\ out[2].conn = ws /\ out[2].type = "sent"

\* C20: the message frame of a send{to: U} goes only to the connection that
\* identified as U most recently, and only if that connection is open; a
\* connection that is not open receives no message frame.
C20_NoMisrouting ==
  \A ws \in Conns, to \in UserIds, payload \in PayloadTexts :
    ~ENABLED (/\ OnMessage(ws, SendData(to, payload))
              /\ \E i \in DOMAIN out' :
                   /\ out'[i].type = "message"
                   /\ ~(/\ Lookup(latest, to, out'[i].conn)
                        /\ readyState[out'[i].conn] = "OPEN"))

\* A message was delivered to the second registrant of a userId while the
\* first one, superseded, is still open and identified as it.
C20_Witness ==
  \E a, b \in Conns, u \in UserIds :
    /\ a # b
    /\ readyState[a] = "OPEN" /\ userId[a] = u
    /\ Lookup(latest, u, b)
    /\ \E i \in DOMAIN out : out[i].type = "message" /\ out[i].conn = b
    /\ out[Len(out)].type = "sent" /\ out[Len(out)].arg = u

====
